---- MODULE Spec2Model ----
(***************************************************************************)
(* KubeML TrainJob (ml/pkg/train/job.go): the controller goroutine         *)
(* (Train/train/validate), the Merger goroutine (mergeModel) and the       *)
(* worker functions of one epoch, with the channels and the wait group     *)
(* that synchronise them.                                                  *)
(***************************************************************************)
EXTENDS Integers, Sequences, FiniteSets, TLC

\* ---------------------------------------------------------------- bounds
MaxEpochs == 2
MaxPar == 2
MaxRounds == 2
\* the flag values tried around each limit of validateTrainRequest
MaxProbe == 1
\* the largest loss a training function reports
MaxLoss == 2

\* ------------------------------------------------------ program constants
\* accuracyCh: make(chan struct{}, 1)
AccuracyChCap == 1
\* stopChan: make(chan struct{}, 1)
StopChanCap == 1
\* K = -1: synchronize once per epoch
SparseK == -1
\* const maxBatchSize = 1024
maxBatchSize == 1024

WorkerIds == 0 .. (MaxPar - 1)
\* the parallelism levels a job is given: the smallest and the largest
Parallelisms == {1, MaxPar}
NoErr == "nil"
\* the errors job.init() returns
InitErrors == {"init_invoke", "init_layers", "init_build"}

VARIABLES
    \* task settings, fixed for one job (extractTaskSettings)
    Epochs, static, validateEvery, K, par0, noParUpdate,
    \* controller (Train)
    cpc, epoch, parallelism, statePar, exitErr, accuracyReached,
    \* channels and synchronisation primitives of the TrainJob
    accuracyCh, stopChan, finishCh, errChan, errChanOf, wgIteration,
    finishedFuncs,
    \* Merger (mergeModel) position and locals
    mpc, mEpoch, channels, mErr, finished, remaining, ansIdx,
    \* whether Average and Save have succeeded in the running iteration of the
    \* Merger's inner loop
    avgDone, saveDone,
    \* worker functions of the current epoch
    wstate, barrier, recvd,
    \* process state
    panicked,
    \* observations of the run (history variables)
    trainOk, updFailed, mergedRecv, lastSelect, hitEpoch, accPushes,
    valRuns, finalVals, updReqs, schedReads, histSaved, tensorsCleared,
    poolClosed, jobFinished, exitPath, lastTrained, trainHist, valHist,
    \* the parallelism the running epoch was armed with, the participants the
    \* current barrier was armed for, and the invocations that failed before
    \* reporting in at the current barrier
    armedPar, expected, failedCnt,
    \* the kubeml train command (cmd.train): its position, the flags of the
    \* request, the outcome of the two lookups, the error of the
    \* validation, and whether the request was sent to the controller
    cliPc, batchSize, epochs, lr, datasetFound, functionFound, cliErr,
    submitted,
    \* ParameterServer.invokeTrainFunctions(n), as one record: its position
    \* (pc), n, the loop index i, its wait group wg and result channel
    \* respChan, the summed loss and the mean avgLoss, the trainLoss history,
    \* and each launchFunction goroutine's position (fnPc) and the loss it
    \* sent (fnRes)
    ps

cfgVars == <<Epochs, static, validateEvery, K, par0, noParUpdate>>
ctlVars == <<cpc, epoch, parallelism, exitErr, accuracyReached>>
chanVars == <<accuracyCh, stopChan, finishCh, errChan, errChanOf, wgIteration,
              finishedFuncs>>
mrgVars == <<mpc, mEpoch, channels, mErr, finished, remaining, ansIdx,
            avgDone, saveDone>>
wrkVars == <<wstate, barrier, recvd>>
obsVars == <<trainOk, updFailed, mergedRecv, lastSelect, hitEpoch, accPushes,
             valRuns, finalVals, updReqs, schedReads, histSaved, tensorsCleared,
             poolClosed, jobFinished, exitPath, lastTrained, trainHist, valHist>>
cliVars == <<cliPc, batchSize, epochs, lr, datasetFound, functionFound,
             cliErr, submitted>>
psVars == <<ps>>
vars == <<cfgVars, ctlVars, statePar, chanVars, mrgVars, wrkVars, panicked,
          obsVars, armedPar, expected, failedCnt, cliVars, psVars>>

\* updateTrainMetrics, updateValidationMetrics: the metrics of the epoch are
\* appended to the job's history (the entry is represented by its epoch)
AppendMetric(h, e) == Append(h, e)

\* make(chan *finishNotification, n)
NewFinishCh(n) == [cap |-> n, buf |-> <<>>, closed |-> FALSE]

NoSelect == [epoch |-> 0, stop |-> FALSE, acc |-> FALSE, branch |-> "none"]

JobInit ==
    /\ Epochs \in 1 .. MaxEpochs
    /\ static \in BOOLEAN
    /\ validateEvery \in 0 .. (MaxEpochs - 1)
    /\ K \in {SparseK, 1}
    /\ par0 \in {0} \cup Parallelisms
    /\ noParUpdate \in (IF static THEN {FALSE} ELSE BOOLEAN)
    /\ cpc = "init"
    /\ epoch = 0
    /\ parallelism = par0
    /\ statePar = par0
    /\ exitErr = NoErr
    /\ accuracyReached = FALSE
    /\ accuracyCh = 0
    /\ stopChan = 0
    /\ finishCh = NewFinishCh(0)
    /\ errChan = "empty"
    /\ errChanOf = 0
    /\ wgIteration = 0
    /\ finishedFuncs = 0
    /\ mpc = "wait_start"
    /\ mEpoch = 0
    /\ channels = <<>>
    /\ mErr = "none"
    /\ finished = 0
    /\ remaining = 0
    /\ ansIdx = 0
    /\ avgDone = FALSE
    /\ saveDone = FALSE
    /\ wstate = [w \in WorkerIds |-> "idle"]
    /\ barrier = 0
    /\ recvd = [w \in WorkerIds |-> <<>>]
    /\ panicked = FALSE
    /\ trainOk = FALSE
    /\ updFailed = FALSE
    /\ mergedRecv = 0
    /\ lastSelect = NoSelect
    /\ hitEpoch = 0
    /\ accPushes = 0
    /\ valRuns = 0
    /\ finalVals = 0
    /\ updReqs = 0
    /\ schedReads = 0
    /\ histSaved = FALSE
    /\ tensorsCleared = 0
    /\ poolClosed = 0
    /\ jobFinished = <<>>
    /\ exitPath = "none"
    /\ lastTrained = 0
    /\ trainHist = <<>>
    /\ valHist = <<>>
    /\ armedPar = 0
    /\ expected = 0
    /\ failedCnt = 0

\* no train command is running
CliOff ==
    /\ cliPc = "off"
    /\ batchSize = 0 /\ epochs = 0 /\ lr = 0
    /\ datasetFound = FALSE /\ functionFound = FALSE
    /\ cliErr = <<>>
    /\ submitted = FALSE

\* float32 values that come out of a division, kept as the pair of the
\* dividend and the divisor
Quotient(a, b) == [num |-> a, den |-> b]

\* make(chan map[string]float32, n)
NewRespChan(n) == [cap |-> n, buf |-> <<>>, closed |-> FALSE]

\* the state of a call before its first statement, for n functions and the
\* trainLoss history h
PsCall(pc, n, h) ==
    [pc |-> pc, n |-> n, i |-> 0, wg |-> 0, respChan |-> NewRespChan(0),
     loss |-> 0, avgLoss |-> Quotient(0, 1), history |-> h,
     fnPc |-> [f \in WorkerIds |-> "none"],
     fnRes |-> [f \in WorkerIds |-> 0]]

\* no invokeTrainFunctions call is running
PsOff == ps = PsCall("off", 0, <<>>)

Init == JobInit /\ CliOff /\ PsOff

\* the job is followed until Train returns or the process panics
Alive == ~panicked /\ cpc # "done"

\* ------------------------------------------------------------ controller

\* Train: job.init() succeeds, the main loop starts at epoch 1
InitOk ==
    /\ Alive /\ cpc = "init"
    /\ epoch' = 1
    /\ cpc' = "arm_ch"
    /\ UNCHANGED <<psVars, cliVars, expected, armedPar, failedCnt, statePar,
                   cfgVars, parallelism, exitErr, accuracyReached, chanVars,
                   mrgVars, wrkVars, panicked, obsVars>>

\* InitFail with the teardown not deferred: the early return skips it
InitFailNoTeardown ==
    /\ Alive /\ cpc = "init"
    /\ exitErr' \in InitErrors
    /\ exitPath' = "init"
    /\ cpc' = "done"
    /\ UNCHANGED <<psVars, cliVars, expected, armedPar, failedCnt, statePar,
                   cfgVars, epoch, parallelism, accuracyReached, chanVars,
                   mrgVars, wrkVars, panicked, trainOk, updFailed, mergedRecv,
                   lastSelect, hitEpoch, accPushes, valRuns, finalVals,
                   updReqs, schedReads, histSaved, tensorsCleared, poolClosed,
                   jobFinished, lastTrained, trainHist, valHist>>

\* InitFail without the return: the error is recorded and the main loop
\* starts all the same
InitFailNoReturn ==
    /\ Alive /\ cpc = "init"
    /\ exitErr' \in InitErrors
    /\ exitPath' = "init"
    /\ epoch' = 1
    /\ cpc' = "arm_ch"
    /\ UNCHANGED <<psVars, cliVars, expected, armedPar, failedCnt, statePar,
                   cfgVars, parallelism, accuracyReached, chanVars, mrgVars,
                   wrkVars, panicked, trainOk, updFailed, mergedRecv,
                   lastSelect, hitEpoch, accPushes, valRuns, finalVals,
                   updReqs, schedReads, histSaved, tensorsCleared, poolClosed,
                   jobFinished, lastTrained, trainHist, valHist>>

\* Train: job.init() fails; exitErr = err; return (the deferred teardown
\* runs). init: "error invoking init function", "length of the layers is
\* zero" or "error building model"
InitFail ==
    /\ Alive /\ cpc = "init"
    /\ exitErr' \in InitErrors
    /\ exitPath' = "init"
    /\ cpc' = "teardown"
    /\ UNCHANGED <<psVars, cliVars, expected, armedPar, failedCnt, statePar,
                   cfgVars, epoch, parallelism, accuracyReached, chanVars,
                   mrgVars, wrkVars, panicked, trainOk, updFailed, mergedRecv,
                   lastSelect, hitEpoch, accPushes, valRuns, finalVals,
                   updReqs, schedReads, histSaved, tensorsCleared, poolClosed,
                   jobFinished, lastTrained, trainHist, valHist>>

\* train: job.finishCh = make(chan *finishNotification, job.parallelism)
ArmFinishCh ==
    /\ Alive /\ cpc = "arm_ch"
    /\ finishCh' = NewFinishCh(parallelism)
    /\ cpc' = "arm_wg"
    /\ UNCHANGED <<psVars, cliVars, expected, armedPar, failedCnt, statePar,
                   cfgVars, epoch, parallelism, exitErr, accuracyReached,
                   accuracyCh, stopChan, errChan, errChanOf, wgIteration,
                   finishedFuncs, mrgVars, wrkVars, panicked, obsVars>>

\* train: job.wgIteration.Add(job.parallelism)
ArmWaitGroup ==
    /\ Alive /\ cpc = "arm_wg"
    /\ wgIteration' = wgIteration + parallelism
    /\ cpc' = "arm_cnt"
    /\ UNCHANGED <<psVars, cliVars, expected, armedPar, failedCnt, statePar,
                   cfgVars, epoch, parallelism, exitErr, accuracyReached,
                   accuracyCh, stopChan, finishCh, errChan, errChanOf,
                   finishedFuncs, mrgVars, wrkVars, panicked, obsVars>>

\* train: atomic.StoreInt64(&job.finishedFuncs, 0); errChan := make(chan error, 1)
ArmCounters ==
    /\ Alive /\ cpc = "arm_cnt"
    /\ finishedFuncs' = 0
    /\ errChan' = "empty"
    /\ errChanOf' = epoch
    /\ cpc' = "handoff"
    /\ UNCHANGED <<psVars, cliVars, expected, armedPar, failedCnt, statePar,
                   cfgVars, epoch, parallelism, exitErr, accuracyReached,
                   accuracyCh, stopChan, finishCh, wgIteration, mrgVars,
                   wrkVars, panicked, obsVars>>

\* train: job.startMerger <- errChan, received by mergeModel's
\* errChan := <-job.startMerger (unbuffered: both sides move together);
\* then invokeTrainFunctions launches job.parallelism functions
StartMerger ==
    /\ Alive /\ cpc = "handoff" /\ mpc = "wait_start"
    /\ mpc' = "clear"
    /\ mEpoch' = epoch
    /\ mErr' = "none"
    /\ wstate' = [w \in WorkerIds |-> IF w < parallelism THEN "running" ELSE "idle"]
    /\ barrier' = 0
    /\ recvd' = [w \in WorkerIds |-> <<>>]
    /\ lastTrained' = epoch
    /\ trainOk' = FALSE /\ updFailed' = FALSE /\ mergedRecv' = 0
    /\ cpc' = "invoke"
    /\ armedPar' = parallelism
    /\ expected' = parallelism
    /\ failedCnt' = 0
    /\ UNCHANGED <<psVars, avgDone, saveDone, cliVars, statePar, cfgVars,
                   epoch, parallelism, exitErr, accuracyReached, chanVars,
                   channels, finished, remaining, ansIdx, panicked,
                   lastSelect, hitEpoch, accPushes, valRuns, finalVals,
                   updReqs, schedReads, histSaved, tensorsCleared, poolClosed,
                   jobFinished, exitPath, trainHist, valHist>>

Launched == {w \in WorkerIds : wstate[w] # "idle"}
AllReturned == \A w \in Launched : wstate[w] \in {"done", "failed"}
SomeResult == \E w \in Launched : wstate[w] = "done"

\* every launched invocation has completed (the functions of the epoch are
\* gone) and invokeTrainFunctions returns err == nil
InvokeOk ==
    /\ Alive /\ cpc = "invoke" /\ AllReturned
    /\ cpc' = "poll"
    /\ wstate' = [w \in WorkerIds |-> "idle"]
    /\ barrier' = 0
    /\ UNCHANGED <<psVars, cliVars, expected, armedPar, failedCnt, statePar,
                   cfgVars, epoch, parallelism, exitErr, accuracyReached,
                   chanVars, mrgVars, recvd, panicked, obsVars>>

\* invokeTrainFunctions returned an error (no function returned a result):
\* exitErr = "error invoking functions"; return
InvokeErr ==
    /\ Alive /\ cpc = "invoke" /\ AllReturned /\ ~SomeResult
    /\ exitErr' = "invoke"
    /\ exitPath' = "train"
    /\ cpc' = "teardown"
    /\ wstate' = [w \in WorkerIds |-> "idle"]
    /\ barrier' = 0
    /\ UNCHANGED <<psVars, cliVars, expected, armedPar, failedCnt, statePar,
                   cfgVars, epoch, parallelism, accuracyReached, chanVars,
                   mrgVars, recvd, panicked, trainOk, updFailed, mergedRecv,
                   lastSelect, hitEpoch, accPushes, valRuns, finalVals,
                   updReqs, schedReads, histSaved, tensorsCleared, poolClosed,
                   jobFinished, lastTrained, trainHist, valHist>>

\* train: select { case err := <-errChan: return "error merging model" }
PollMergeError ==
    /\ Alive /\ cpc = "poll" /\ errChan # "empty"
    /\ errChan' = "empty"
    /\ exitErr' = "merge"
    /\ exitPath' = "train"
    /\ cpc' = "teardown"
    /\ UNCHANGED <<psVars, cliVars, expected, armedPar, failedCnt, statePar,
                   cfgVars, epoch, parallelism, accuracyReached, accuracyCh,
                   errChanOf, stopChan, finishCh, wgIteration, finishedFuncs,
                   mrgVars, wrkVars, panicked, trainOk, updFailed, mergedRecv,
                   lastSelect, hitEpoch, accPushes, valRuns, finalVals,
                   updReqs, schedReads, histSaved, tensorsCleared, poolClosed,
                   jobFinished, lastTrained, trainHist, valHist>>

\* PollNoError with the train metrics of the epoch appended twice
PollNoErrorTwice ==
    /\ Alive /\ cpc = "poll" /\ errChan = "empty"
    /\ trainOk' = TRUE
    /\ trainHist' = AppendMetric(AppendMetric(trainHist, epoch), epoch)
    /\ cpc' = "sched"
    /\ UNCHANGED <<psVars, cliVars, expected, armedPar, failedCnt, statePar,
                   cfgVars, epoch, parallelism, exitErr, accuracyReached,
                   chanVars, mrgVars, wrkVars, panicked, updFailed,
                   mergedRecv, lastSelect, hitEpoch, accPushes, valRuns,
                   finalVals, updReqs, schedReads, histSaved, tensorsCleared,
                   poolClosed, jobFinished, exitPath, lastTrained, valHist>>

\* train: select { default: }; updateTrainMetrics; return nil
PollNoError ==
    /\ Alive /\ cpc = "poll" /\ errChan = "empty"
    /\ trainOk' = TRUE
    /\ trainHist' = AppendMetric(trainHist, epoch)
    /\ cpc' = "sched"
    /\ UNCHANGED <<psVars, cliVars, expected, armedPar, failedCnt, statePar,
                   cfgVars, epoch, parallelism, exitErr, accuracyReached,
                   chanVars, mrgVars, wrkVars, panicked, updFailed,
                   mergedRecv, lastSelect, hitEpoch, accPushes, valRuns,
                   finalVals, updReqs, schedReads, histSaved, tensorsCleared,
                   poolClosed, jobFinished, exitPath, lastTrained, valHist>>

\* NeedsUpdate without the test of job.static
NeedsUpdateIgnoringStatic == epoch < Epochs

\* Train: if !job.static && job.epoch < job.task.Parameters.Epochs
NeedsUpdate == ~static /\ epoch < Epochs

\* the for statement's post statement and condition:
\* job.epoch++; job.epoch <= job.task.Parameters.Epochs
LoopPc(e) == IF e <= Epochs THEN "arm_ch" ELSE "final"

\* Train: the scheduler is not asked (static job or last epoch)
SkipUpdate ==
    /\ Alive /\ cpc = "sched" /\ ~NeedsUpdate
    /\ cpc' = "wait_merged"
    /\ UNCHANGED <<psVars, cliVars, expected, armedPar, failedCnt, statePar,
                   cfgVars, epoch, parallelism, exitErr, accuracyReached,
                   chanVars, mrgVars, wrkVars, panicked, obsVars>>

\* Train: err = job.scheduler.UpdateJob(job.task) with err == nil
UpdateJobOk ==
    /\ Alive /\ cpc = "sched" /\ NeedsUpdate
    /\ updReqs' = updReqs + 1
    /\ cpc' = "wait_sched"
    /\ UNCHANGED <<psVars, cliVars, expected, armedPar, failedCnt, statePar,
                   cfgVars, epoch, parallelism, exitErr, accuracyReached,
                   chanVars, mrgVars, wrkVars, panicked, trainOk, updFailed,
                   mergedRecv, lastSelect, hitEpoch, accPushes, valRuns,
                   finalVals, schedReads, histSaved, tensorsCleared,
                   poolClosed, jobFinished, exitPath, lastTrained, trainHist,
                   valHist>>

\* Train: UpdateJob returns an error: log and `continue`, which runs the
\* loop's post statement and skips the rest of the iteration
UpdateJobErr ==
    /\ Alive /\ cpc = "sched" /\ NeedsUpdate
    /\ updReqs' = updReqs + 1
    /\ updFailed' = TRUE
    /\ epoch' = epoch + 1
    /\ cpc' = LoopPc(epoch + 1)
    /\ UNCHANGED <<psVars, cliVars, expected, armedPar, failedCnt, statePar,
                   cfgVars, parallelism, exitErr, accuracyReached, chanVars,
                   mrgVars, wrkVars, panicked, trainOk, mergedRecv,
                   lastSelect, hitEpoch, accPushes, valRuns, finalVals,
                   schedReads, histSaved, tensorsCleared, poolClosed,
                   jobFinished, exitPath, lastTrained, trainHist, valHist>>

\* SchedulerReply without job.parallelism = update.Parallelism
SchedulerReplyNotApplied ==
    /\ Alive /\ cpc = "wait_sched"
    /\ \E p \in Parallelisms : statePar' = p
    /\ schedReads' = schedReads + 1
    /\ cpc' = "wait_merged"
    /\ UNCHANGED <<psVars, cliVars, expected, armedPar, failedCnt, cfgVars,
                   epoch, parallelism, exitErr, accuracyReached, chanVars,
                   mrgVars, wrkVars, panicked, trainOk, updFailed, mergedRecv,
                   lastSelect, hitEpoch, accPushes, valRuns, finalVals,
                   updReqs, histSaved, tensorsCleared, poolClosed,
                   jobFinished, exitPath, lastTrained, trainHist, valHist>>

\* Train: update := <-job.schedulerCh; job.task.Job.State = *update;
\* job.parallelism = update.Parallelism unless util.IsDebugEnv() or
\* util.LimitParallelism()
SchedulerReply ==
    /\ Alive /\ cpc = "wait_sched"
    /\ \E p \in Parallelisms :
          /\ statePar' = p
          /\ parallelism' = IF noParUpdate THEN parallelism ELSE p
    /\ schedReads' = schedReads + 1
    /\ cpc' = "wait_merged"
    /\ UNCHANGED <<psVars, cliVars, expected, armedPar, failedCnt, cfgVars,
                   epoch, exitErr, accuracyReached, chanVars, mrgVars,
                   wrkVars, panicked, trainOk, updFailed, mergedRecv,
                   lastSelect, hitEpoch, accPushes, valRuns, finalVals,
                   updReqs, histSaved, tensorsCleared, poolClosed,
                   jobFinished, exitPath, lastTrained, trainHist, valHist>>

\* WaitMerged without the receive on job.merged: the controller goes on to
\* the validation while the Merger may still be merging
WaitMergedNoReceive ==
    /\ Alive /\ cpc = "wait_merged"
    /\ cpc' = "val"
    /\ UNCHANGED <<psVars, cliVars, expected, armedPar, failedCnt, statePar,
                   cfgVars, epoch, parallelism, exitErr, accuracyReached,
                   chanVars, mrgVars, wrkVars, panicked, obsVars>>

\* Train: <-job.merged, met by mergeModel's job.merged <- struct{}{}; break
\* (unbuffered: both sides move together; the locals of the Merger's inner
\* loop go out of scope)
WaitMerged ==
    /\ Alive /\ cpc = "wait_merged" /\ mpc = "send_merged"
    /\ mergedRecv' = mergedRecv + 1
    /\ mpc' = "wait_start"
    /\ channels' = <<>> /\ finished' = 0 /\ remaining' = 0 /\ ansIdx' = 0
    /\ cpc' = "val"
    /\ avgDone' = FALSE /\ saveDone' = FALSE
    /\ UNCHANGED <<psVars, cliVars, expected, armedPar, failedCnt, statePar,
                   cfgVars, epoch, parallelism, exitErr, accuracyReached,
                   chanVars, mEpoch, mErr, wrkVars, panicked, trainOk,
                   updFailed, lastSelect, hitEpoch, accPushes, valRuns,
                   finalVals, updReqs, schedReads, histSaved, tensorsCleared,
                   poolClosed, jobFinished, exitPath, lastTrained, trainHist,
                   valHist>>

\* Train: job.validateEvery != 0 && job.epoch%job.validateEvery == 0 &&
\*        job.epoch != job.task.Parameters.Epochs
ShouldValidate ==
    /\ validateEvery # 0
    /\ epoch % validateEvery = 0
    /\ epoch # Epochs

\* Train: the intermediate validation is triggered
ValidateStart ==
    /\ Alive /\ cpc = "val" /\ ShouldValidate
    /\ valRuns' = valRuns + 1
    /\ cpc' = "validating_i"
    /\ UNCHANGED <<psVars, cliVars, expected, armedPar, failedCnt, statePar,
                   cfgVars, epoch, parallelism, exitErr, accuracyReached,
                   chanVars, mrgVars, wrkVars, panicked, trainOk, updFailed,
                   mergedRecv, lastSelect, hitEpoch, accPushes, finalVals,
                   updReqs, schedReads, histSaved, tensorsCleared, poolClosed,
                   jobFinished, exitPath, lastTrained, trainHist, valHist>>

\* Train: no intermediate validation in this epoch
ValidateSkip ==
    /\ Alive /\ cpc = "val" /\ ~ShouldValidate
    /\ cpc' = "select"
    /\ UNCHANGED <<psVars, cliVars, expected, armedPar, failedCnt, statePar,
                   cfgVars, epoch, parallelism, exitErr, accuracyReached,
                   chanVars, mrgVars, wrkVars, panicked, obsVars>>

\* where validate() returns to: the loop's select, or saveTrainingHistory
ValRet ==
    IF cpc \in {"validating_i", "push_i", "valerr_i"} THEN "select"
    ELSE "save_hist"
\* where Train logs the error validate() returned
ErrPc == IF cpc = "validating_i" THEN "valerr_i" ELSE "valerr_f"
PushPc == IF cpc = "validating_i" THEN "push_i" ELSE "push_f"
InValidate == cpc \in {"validating_i", "validating_f"}

\* ValidateInvokeErr with the error treated as fatal for the job
ValidateInvokeErrFatal ==
    /\ Alive /\ InValidate
    /\ exitErr' = "validation"
    /\ cpc' = ErrPc
    /\ UNCHANGED <<psVars, cliVars, expected, armedPar, failedCnt, statePar,
                   cfgVars, epoch, parallelism, accuracyReached, chanVars,
                   mrgVars, wrkVars, panicked, obsVars>>

\* validate: invokeValFunctions fails: return "error during validation"
ValidateInvokeErr ==
    /\ Alive /\ InValidate
    /\ cpc' = ErrPc
    /\ UNCHANGED <<psVars, cliVars, expected, armedPar, failedCnt, statePar,
                   cfgVars, epoch, parallelism, exitErr, accuracyReached,
                   chanVars, mrgVars, wrkVars, panicked, obsVars>>

\* validate: updateValidationMetrics fails: return "error sending val results"
ValidateMetricsErr ==
    /\ Alive /\ InValidate
    /\ cpc' = ErrPc
    /\ UNCHANGED <<psVars, cliVars, expected, armedPar, failedCnt, statePar,
                   cfgVars, epoch, parallelism, exitErr, accuracyReached,
                   chanVars, mrgVars, wrkVars, panicked, obsVars>>

\* Train: if err != nil { job.logger.Error("error performing validation") }
ValidateErrLogged ==
    /\ Alive /\ cpc \in {"valerr_i", "valerr_f"}
    /\ cpc' = ValRet
    /\ UNCHANGED <<psVars, cliVars, expected, armedPar, failedCnt, statePar,
                   cfgVars, epoch, parallelism, exitErr, accuracyReached,
                   chanVars, mrgVars, wrkVars, panicked, obsVars>>

\* validate: metrics updated, accuracy < job.goalAccuracy: return nil
ValidateMiss ==
    /\ Alive /\ InValidate
    /\ valHist' = AppendMetric(valHist, epoch)
    /\ cpc' = ValRet
    /\ UNCHANGED <<psVars, cliVars, expected, armedPar, failedCnt, statePar,
                   cfgVars, epoch, parallelism, exitErr, accuracyReached,
                   chanVars, mrgVars, wrkVars, panicked, trainOk, updFailed,
                   mergedRecv, lastSelect, hitEpoch, accPushes, valRuns,
                   finalVals, updReqs, schedReads, histSaved, tensorsCleared,
                   poolClosed, jobFinished, exitPath, lastTrained, trainHist>>

\* validate: metrics updated, accuracy >= job.goalAccuracy
ValidateHit ==
    /\ Alive /\ InValidate
    /\ valHist' = AppendMetric(valHist, epoch)
    /\ hitEpoch' = IF cpc = "validating_i" THEN epoch ELSE hitEpoch
    /\ cpc' = PushPc
    /\ UNCHANGED <<psVars, cliVars, expected, armedPar, failedCnt, statePar,
                   cfgVars, epoch, parallelism, exitErr, accuracyReached,
                   chanVars, mrgVars, wrkVars, panicked, trainOk, updFailed,
                   mergedRecv, lastSelect, accPushes, valRuns, finalVals,
                   updReqs, schedReads, histSaved, tensorsCleared, poolClosed,
                   jobFinished, exitPath, lastTrained, trainHist>>

\* validate: job.accuracyCh <- struct{}{} (blocks while the buffer is full)
PushAccuracy ==
    /\ Alive /\ cpc \in {"push_i", "push_f"}
    /\ accuracyCh < AccuracyChCap
    /\ accuracyCh' = accuracyCh + 1
    /\ accPushes' = accPushes + 1
    /\ cpc' = ValRet
    /\ UNCHANGED <<psVars, cliVars, expected, armedPar, failedCnt, statePar,
                   cfgVars, epoch, parallelism, exitErr, accuracyReached,
                   stopChan, finishCh, errChan, errChanOf, wgIteration,
                   finishedFuncs, mrgVars, wrkVars, panicked, trainOk,
                   updFailed, mergedRecv, lastSelect, hitEpoch, valRuns,
                   finalVals, updReqs, schedReads, histSaved, tensorsCleared,
                   poolClosed, jobFinished, exitPath, lastTrained, trainHist,
                   valHist>>

Seen(b) == [epoch |-> epoch, stop |-> stopChan > 0, acc |-> accuracyCh > 0,
            branch |-> b]

\* SelectStop without job.exitErr = errors.New("job was force stopped")
SelectStopNoErr ==
    /\ Alive /\ cpc = "select" /\ stopChan > 0
    /\ stopChan' = stopChan - 1
    /\ accuracyReached' = TRUE
    /\ exitPath' = "stop"
    /\ lastSelect' = Seen("stop")
    /\ cpc' = "final"
    /\ UNCHANGED <<psVars, cliVars, expected, armedPar, failedCnt, statePar,
                   cfgVars, epoch, parallelism, exitErr, accuracyCh, finishCh,
                   errChan, errChanOf, wgIteration, finishedFuncs, mrgVars,
                   wrkVars, panicked, trainOk, updFailed, mergedRecv,
                   hitEpoch, accPushes, valRuns, finalVals, updReqs,
                   schedReads, histSaved, tensorsCleared, poolClosed,
                   jobFinished, lastTrained, trainHist, valHist>>

\* SelectStop without job.accuracyReached = true: the final validation runs
\* after a forced stop
SelectStopStillValidates ==
    /\ Alive /\ cpc = "select" /\ stopChan > 0
    /\ stopChan' = stopChan - 1
    /\ exitErr' = "stop"
    /\ exitPath' = "stop"
    /\ lastSelect' = Seen("stop")
    /\ cpc' = "final"
    /\ UNCHANGED <<psVars, cliVars, expected, armedPar, failedCnt, statePar,
                   cfgVars, epoch, parallelism, accuracyReached, accuracyCh,
                   finishCh, errChan, errChanOf, wgIteration, finishedFuncs,
                   mrgVars, wrkVars, panicked, trainOk, updFailed, mergedRecv,
                   hitEpoch, accPushes, valRuns, finalVals, updReqs,
                   schedReads, histSaved, tensorsCleared, poolClosed,
                   jobFinished, lastTrained, trainHist, valHist>>

\* Train: case <-job.stopChan: accuracyReached = true;
\*        exitErr = "job was force stopped"; break main
SelectStop ==
    /\ Alive /\ cpc = "select" /\ stopChan > 0
    /\ stopChan' = stopChan - 1
    /\ accuracyReached' = TRUE
    /\ exitErr' = "stop"
    /\ exitPath' = "stop"
    /\ lastSelect' = Seen("stop")
    /\ cpc' = "final"
    /\ UNCHANGED <<psVars, cliVars, expected, armedPar, failedCnt, statePar,
                   cfgVars, epoch, parallelism, accuracyCh, finishCh, errChan,
                   errChanOf, wgIteration, finishedFuncs, mrgVars, wrkVars,
                   panicked, trainOk, updFailed, mergedRecv, hitEpoch,
                   accPushes, valRuns, finalVals, updReqs, schedReads,
                   histSaved, tensorsCleared, poolClosed, jobFinished,
                   lastTrained, trainHist, valHist>>

\* SelectAccuracy without the break: the loop goes on to the next epoch
SelectAccuracyNoBreak ==
    /\ Alive /\ cpc = "select" /\ accuracyCh > 0
    /\ accuracyCh' = accuracyCh - 1
    /\ accuracyReached' = TRUE
    /\ exitPath' = "goal"
    /\ lastSelect' = Seen("accuracy")
    /\ epoch' = epoch + 1
    /\ cpc' = LoopPc(epoch + 1)
    /\ UNCHANGED <<psVars, cliVars, expected, armedPar, failedCnt, statePar,
                   cfgVars, parallelism, exitErr, stopChan, finishCh, errChan,
                   errChanOf, wgIteration, finishedFuncs, mrgVars, wrkVars,
                   panicked, trainOk, updFailed, mergedRecv, hitEpoch,
                   accPushes, valRuns, finalVals, updReqs, schedReads,
                   histSaved, tensorsCleared, poolClosed, jobFinished,
                   lastTrained, trainHist, valHist>>

\* Train: case <-job.accuracyCh: accuracyReached = true; break main
SelectAccuracy ==
    /\ Alive /\ cpc = "select" /\ accuracyCh > 0
    /\ accuracyCh' = accuracyCh - 1
    /\ accuracyReached' = TRUE
    /\ exitPath' = "goal"
    /\ lastSelect' = Seen("accuracy")
    /\ cpc' = "final"
    /\ UNCHANGED <<psVars, cliVars, expected, armedPar, failedCnt, statePar,
                   cfgVars, epoch, parallelism, exitErr, stopChan, finishCh,
                   errChan, errChanOf, wgIteration, finishedFuncs, mrgVars,
                   wrkVars, panicked, trainOk, updFailed, mergedRecv,
                   hitEpoch, accPushes, valRuns, finalVals, updReqs,
                   schedReads, histSaved, tensorsCleared, poolClosed,
                   jobFinished, lastTrained, trainHist, valHist>>

\* Train: default: (no channel is ready) and the loop's post statement
SelectDefault ==
    /\ Alive /\ cpc = "select" /\ stopChan = 0 /\ accuracyCh = 0
    /\ lastSelect' = Seen("default")
    /\ epoch' = epoch + 1
    /\ cpc' = LoopPc(epoch + 1)
    /\ exitPath' = IF epoch + 1 <= Epochs THEN exitPath ELSE "completed"
    /\ UNCHANGED <<psVars, cliVars, expected, armedPar, failedCnt, statePar,
                   cfgVars, parallelism, exitErr, accuracyReached, chanVars,
                   mrgVars, wrkVars, panicked, trainOk, updFailed, mergedRecv,
                   hitEpoch, accPushes, valRuns, finalVals, updReqs,
                   schedReads, histSaved, tensorsCleared, poolClosed,
                   jobFinished, lastTrained, trainHist, valHist>>

\* Train: if !job.accuracyReached { err = job.validate() }
FinalValidate ==
    /\ Alive /\ cpc = "final" /\ ~accuracyReached
    /\ finalVals' = finalVals + 1
    /\ cpc' = "validating_f"
    /\ UNCHANGED <<psVars, cliVars, expected, armedPar, failedCnt, statePar,
                   cfgVars, epoch, parallelism, exitErr, accuracyReached,
                   chanVars, mrgVars, wrkVars, panicked, trainOk, updFailed,
                   mergedRecv, lastSelect, hitEpoch, accPushes, valRuns,
                   updReqs, schedReads, histSaved, tensorsCleared, poolClosed,
                   jobFinished, exitPath, lastTrained, trainHist, valHist>>

\* Train: the accuracy is already reached, no need to validate again
FinalSkip ==
    /\ Alive /\ cpc = "final" /\ accuracyReached
    /\ cpc' = "save_hist"
    /\ UNCHANGED <<psVars, cliVars, expected, armedPar, failedCnt, statePar,
                   cfgVars, epoch, parallelism, exitErr, accuracyReached,
                   chanVars, mrgVars, wrkVars, panicked, obsVars>>

\* Train: job.saveTrainingHistory()
SaveHistory ==
    /\ Alive /\ cpc = "save_hist"
    /\ histSaved' = TRUE
    /\ cpc' = "teardown"
    /\ UNCHANGED <<psVars, cliVars, expected, armedPar, failedCnt, statePar,
                   cfgVars, epoch, parallelism, exitErr, accuracyReached,
                   chanVars, mrgVars, wrkVars, panicked, trainOk, updFailed,
                   mergedRecv, lastSelect, hitEpoch, accPushes, valRuns,
                   finalVals, updReqs, schedReads, tensorsCleared, poolClosed,
                   jobFinished, exitPath, lastTrained, trainHist, valHist>>

\* Train's deferred function: job.clearTensors(); job.redisPool.Close();
\* job.ps.JobFinished(job.jobId, job.exitErr)
Teardown ==
    /\ Alive /\ cpc = "teardown"
    /\ tensorsCleared' = tensorsCleared + 1
    /\ poolClosed' = poolClosed + 1
    /\ jobFinished' = Append(jobFinished, exitErr)
    /\ cpc' = "done"
    /\ UNCHANGED <<psVars, cliVars, expected, armedPar, failedCnt, statePar,
                   cfgVars, epoch, parallelism, exitErr, accuracyReached,
                   chanVars, mrgVars, wrkVars, panicked, trainOk, updFailed,
                   mergedRecv, lastSelect, hitEpoch, accPushes, valRuns,
                   finalVals, updReqs, schedReads, histSaved, exitPath,
                   lastTrained, trainHist, valHist>>

\* the external force-stop signal: a send on stopChan (capacity 1). stopChan
\* is read by the loop's select alone, so a stop sent at any earlier moment
\* is seen there exactly as one sent while the controller stands before it
Stop ==
    /\ Alive /\ cpc = "select"
    /\ stopChan < StopChanCap
    /\ stopChan' = stopChan + 1
    /\ UNCHANGED <<psVars, cliVars, expected, armedPar, failedCnt, statePar,
                   cfgVars, ctlVars, accuracyCh, finishCh, errChan, errChanOf,
                   wgIteration, finishedFuncs, mrgVars, wrkVars, panicked,
                   obsVars>>

\* --------------------------------------------------------------- workers

\* &finishNotification{funcId, respChan}; `of` records the epoch the sending
\* function was invoked for (the message itself does not carry it)
Notification(w, resp, e) == [funcId |-> w, resp |-> resp, of |-> e]

\* whether a worker that checks in has consumed its shard: always with
\* K = -1 (one synchronisation per epoch), at the latest at the epoch's
\* barrier number MaxRounds
MustFinish == K = SparseK \/ barrier + 1 >= MaxRounds

\* a worker function ends a local round: it increments finishedFuncs when it
\* has completed its shard, sends its FinishNotification on job.finishCh
\* (respChan nil when finished), marks wgIteration done, and either returns
\* its result or blocks on its respChan
WorkerCheckIn(w, fin) ==
    /\ Alive /\ wstate[w] = "running"
    /\ MustFinish => fin
    /\ ~finishCh.closed /\ wgIteration > 0
    /\ Len(finishCh.buf) < finishCh.cap
    /\ finishedFuncs' = IF fin THEN finishedFuncs + 1 ELSE finishedFuncs
    /\ finishCh' = [finishCh EXCEPT
                      !.buf = Append(@, Notification(w, ~fin, lastTrained))]
    /\ wgIteration' = wgIteration - 1
    /\ wstate' = [wstate EXCEPT ![w] = IF fin THEN "done" ELSE "waiting"]
    /\ UNCHANGED <<psVars, cliVars, expected, armedPar, failedCnt, statePar,
                   cfgVars, ctlVars, accuracyCh, stopChan, errChan, errChanOf,
                   mrgVars, barrier, recvd, panicked, obsVars>>

\* a send on a closed finishCh, or wgIteration.Done() below zero, panics
WorkerPanic(w) ==
    /\ Alive /\ wstate[w] = "running"
    /\ \/ finishCh.closed
       \/ Len(finishCh.buf) < finishCh.cap /\ wgIteration = 0
    /\ panicked' = TRUE
    /\ UNCHANGED <<psVars, cliVars, expected, armedPar, failedCnt, statePar,
                   cfgVars, ctlVars, chanVars, mrgVars, wrkVars, obsVars>>

\* a worker's invocation errors before it reports in: it is accounted as
\* finished (finishedFuncs, wgIteration) and sends no notification
WorkerFail(w) ==
    /\ Alive /\ wstate[w] = "running"
    /\ wgIteration > 0
    /\ finishedFuncs' = finishedFuncs + 1
    /\ wgIteration' = wgIteration - 1
    /\ wstate' = [wstate EXCEPT ![w] = "failed"]
    /\ failedCnt' = failedCnt + 1
    /\ UNCHANGED <<psVars, cliVars, expected, armedPar, statePar, cfgVars,
                   ctlVars, accuracyCh, stopChan, finishCh, errChan,
                   errChanOf, mrgVars, barrier, recvd, panicked, obsVars>>

\* a function of an epoch whose `merged` the controller has received, and
\* which no invocation is waiting for any more, reports in once more as
\* finished: the same notification as WorkerCheckIn's, on whatever the job's
\* finishCh and wgIteration are at that moment
LateFinish(w) ==
    /\ Alive /\ mergedRecv = 1 /\ wstate[w] = "idle"
    /\ ~finishCh.closed /\ wgIteration > 0
    /\ Len(finishCh.buf) < finishCh.cap
    /\ finishedFuncs' = finishedFuncs + 1
    /\ finishCh' = [finishCh EXCEPT
                      !.buf = Append(@, Notification(w, FALSE, lastTrained))]
    /\ wgIteration' = wgIteration - 1
    /\ UNCHANGED <<psVars, cliVars, expected, armedPar, failedCnt, statePar,
                   cfgVars, ctlVars, accuracyCh, stopChan, errChan, errChanOf,
                   mrgVars, wrkVars, panicked, obsVars>>

\* the late send finds finishCh closed, or wgIteration at zero: it panics
LateFinishPanic(w) ==
    /\ Alive /\ mergedRecv = 1 /\ wstate[w] = "idle"
    /\ \/ finishCh.closed
       \/ Len(finishCh.buf) < finishCh.cap /\ wgIteration = 0
    /\ panicked' = TRUE
    /\ UNCHANGED <<psVars, cliVars, expected, armedPar, failedCnt, statePar,
                   cfgVars, ctlVars, chanVars, mrgVars, wrkVars, obsVars>>

\* ---------------------------------------------------------------- Merger

\* mergeModel: job.model.Clear()
MergerClear ==
    /\ Alive /\ mpc = "clear"
    /\ mpc' = "wait_wg"
    /\ UNCHANGED <<psVars, avgDone, saveDone, cliVars, expected, armedPar,
                   failedCnt, statePar, cfgVars, ctlVars, chanVars, mEpoch,
                   channels, mErr, finished, remaining, ansIdx, wrkVars,
                   panicked, obsVars>>

\* MergerWait without the wait: the Merger closes finishCh while
\* participants are still out
MergerNoWait ==
    /\ Alive /\ mpc = "wait_wg"
    /\ mpc' = "drain"
    /\ UNCHANGED <<psVars, avgDone, saveDone, cliVars, expected, armedPar,
                   failedCnt, statePar, cfgVars, ctlVars, chanVars, mEpoch,
                   channels, mErr, finished, remaining, ansIdx, wrkVars,
                   panicked, obsVars>>

\* mergeModel: job.wgIteration.Wait()
MergerWait ==
    /\ Alive /\ mpc = "wait_wg" /\ wgIteration = 0
    /\ mpc' = "drain"
    /\ UNCHANGED <<psVars, avgDone, saveDone, cliVars, expected, armedPar,
                   failedCnt, statePar, cfgVars, ctlVars, chanVars, mEpoch,
                   channels, mErr, finished, remaining, ansIdx, wrkVars,
                   panicked, obsVars>>

\* mergeModel: close(job.finishCh); for msg := range job.finishCh {...};
\* if len(funcs) == 0 the error is reported and the epoch's loop is left
\* (a closed and drained channel holds nothing more: its capacity is dropped)
MergerDrain ==
    /\ Alive /\ mpc = "drain" /\ ~finishCh.closed
    /\ channels' = finishCh.buf
    /\ finishCh' = [cap |-> 0, buf |-> <<>>, closed |-> TRUE]
    /\ recvd' = [w \in WorkerIds |-> <<>>]
    /\ mErr' = IF Len(finishCh.buf) = 0 THEN "nofuncs" ELSE mErr
    /\ mpc' = IF Len(finishCh.buf) = 0 THEN "report_err" ELSE "average"
    /\ UNCHANGED <<psVars, avgDone, saveDone, cliVars, expected, armedPar,
                   failedCnt, statePar, cfgVars, ctlVars, accuracyCh,
                   stopChan, errChan, errChanOf, wgIteration, finishedFuncs,
                   mEpoch, finished, remaining, ansIdx, wstate, barrier,
                   panicked, obsVars>>

\* mergeModel: close of an already closed channel panics
MergerClosePanic ==
    /\ Alive /\ mpc = "drain" /\ finishCh.closed
    /\ panicked' = TRUE
    /\ UNCHANGED <<psVars, cliVars, expected, armedPar, failedCnt, statePar,
                   cfgVars, ctlVars, chanVars, mrgVars, wrkVars, obsVars>>

\* MergerAverageOk without the Save that follows: the Merger goes on to
\* count the remaining functions with the model not saved
MergerAverageOkNoSave ==
    /\ Alive /\ mpc = "average"
    /\ mpc' = "load"
    /\ avgDone' = TRUE
    /\ UNCHANGED <<psVars, saveDone, cliVars, expected, armedPar, failedCnt,
                   statePar, cfgVars, ctlVars, chanVars, mEpoch, channels,
                   mErr, finished, remaining, ansIdx, wrkVars, panicked,
                   obsVars>>

\* mergeModel: job.optimizer.Average(job.model, len(funcs)) succeeds
MergerAverageOk ==
    /\ Alive /\ mpc = "average"
    /\ mpc' = "save"
    /\ avgDone' = TRUE
    /\ UNCHANGED <<psVars, saveDone, cliVars, expected, armedPar, failedCnt,
                   statePar, cfgVars, ctlVars, chanVars, mEpoch, channels,
                   mErr, finished, remaining, ansIdx, wrkVars, panicked,
                   obsVars>>

\* FailureAnswer with the wrong MergeResult
FailureAnswerSucceeded == "MergeSucceeded"

\* mergeModel: answerFunctions(MergeFailed, channels) after a failed
\* Average or Save
FailureAnswer == "MergeFailed"

\* mergeModel: Average fails: answerFunctions(MergeFailed, channels);
\* errChan <- err; break
MergerAverageFail ==
    /\ Alive /\ mpc = "average"
    /\ mErr' = "avg"
    /\ ansIdx' = 1
    /\ mpc' = "answer"
    /\ UNCHANGED <<psVars, avgDone, saveDone, cliVars, expected, armedPar,
                   failedCnt, statePar, cfgVars, ctlVars, chanVars, mEpoch,
                   channels, finished, remaining, wrkVars, panicked, obsVars>>

\* mergeModel: job.model.Save() succeeds
MergerSaveOk ==
    /\ Alive /\ mpc = "save"
    /\ mpc' = "load"
    /\ saveDone' = TRUE
    /\ UNCHANGED <<psVars, avgDone, cliVars, expected, armedPar, failedCnt,
                   statePar, cfgVars, ctlVars, chanVars, mEpoch, channels,
                   mErr, finished, remaining, ansIdx, wrkVars, panicked,
                   obsVars>>

\* mergeModel: Save fails: answerFunctions(MergeFailed, channels);
\* errChan <- err; break
MergerSaveFail ==
    /\ Alive /\ mpc = "save"
    /\ mErr' = "save"
    /\ ansIdx' = 1
    /\ mpc' = "answer"
    /\ UNCHANGED <<psVars, avgDone, saveDone, cliVars, expected, armedPar,
                   failedCnt, statePar, cfgVars, ctlVars, chanVars, mEpoch,
                   channels, finished, remaining, wrkVars, panicked, obsVars>>

\* mergeModel: remaining := job.parallelism - int(finished)
Remaining(p, f) == p - f

\* mergeModel: finished := atomic.LoadInt64(&job.finishedFuncs);
\* remaining := ...; if remaining == 0 {...} else {...}
MergerLoad ==
    /\ Alive /\ mpc = "load"
    /\ finished' = finishedFuncs
    /\ remaining' = Remaining(parallelism, finishedFuncs)
    /\ mpc' = IF Remaining(parallelism, finishedFuncs) = 0
              THEN "send_merged" ELSE "rearm"
    /\ UNCHANGED <<psVars, avgDone, saveDone, cliVars, expected, armedPar,
                   failedCnt, statePar, cfgVars, ctlVars, chanVars, mEpoch,
                   channels, mErr, ansIdx, wrkVars, panicked, obsVars>>

\* mergeModel: job.wgIteration.Add(remaining);
\* job.finishCh = make(chan *finishNotification, remaining)
MergerRearm ==
    /\ Alive /\ mpc = "rearm"
    /\ remaining > 0
    /\ wgIteration' = wgIteration + remaining
    /\ finishCh' = NewFinishCh(remaining)
    /\ ansIdx' = 1
    /\ barrier' = barrier + 1
    /\ mpc' = "answer"
    /\ expected' = remaining
    /\ failedCnt' = 0
    /\ UNCHANGED <<psVars, avgDone, saveDone, cliVars, armedPar, statePar,
                   cfgVars, ctlVars, accuracyCh, stopChan, errChan, errChanOf,
                   finishedFuncs, mEpoch, channels, mErr, finished, remaining,
                   wstate, recvd, panicked, obsVars>>

\* mergeModel: a negative remaining panics (negative WaitGroup counter, or
\* make with a negative size)
MergerRearmPanic ==
    /\ Alive /\ mpc = "rearm"
    /\ remaining < 0
    /\ panicked' = TRUE
    /\ UNCHANGED <<psVars, cliVars, expected, armedPar, failedCnt, statePar,
                   cfgVars, ctlVars, chanVars, mrgVars, wrkVars, obsVars>>

\* the MergeResult of the running answerFunctions call
AnswerResult == IF mErr = "none" THEN "MergeSucceeded" ELSE FailureAnswer

\* answerFunctions: the next non-nil channel from position i on (nil
\* channels, those of finished functions, are skipped), or past the end
RECURSIVE NextNonNil(_, _)
NextNonNil(chs, i) ==
    IF i > Len(chs) \/ chs[i].resp THEN i ELSE NextNonNil(chs, i + 1)

\* answerFunctions: ch <- result for a non-nil channel; the function blocked
\* on it continues with its next round, or returns an error on MergeFailed
MergerAnswerSend ==
    /\ Alive /\ mpc = "answer"
    /\ NextNonNil(channels, ansIdx) <= Len(channels)
    /\ LET w == channels[NextNonNil(channels, ansIdx)].funcId IN
          /\ wstate[w] = "waiting"
          /\ recvd' = [recvd EXCEPT ![w] = Append(@, AnswerResult)]
          /\ wstate' = [wstate EXCEPT ![w] =
                          IF AnswerResult = "MergeSucceeded"
                          THEN "running" ELSE "failed"]
    /\ ansIdx' = NextNonNil(channels, ansIdx) + 1
    /\ UNCHANGED <<psVars, avgDone, saveDone, cliVars, expected, armedPar,
                   failedCnt, statePar, cfgVars, ctlVars, chanVars, mpc,
                   mEpoch, channels, mErr, finished, remaining, barrier,
                   panicked, obsVars>>

\* answerFunctions returns. After MergeSucceeded the iteration of the inner
\* loop ends (its locals go out of scope) and the next barrier of the epoch
\* begins; after MergeFailed the error is reported
MergerAnswerDone ==
    /\ Alive /\ mpc = "answer"
    /\ NextNonNil(channels, ansIdx) > Len(channels)
    /\ mpc' = IF mErr = "none" THEN "clear" ELSE "report_err"
    /\ channels' = IF mErr = "none" THEN <<>> ELSE channels
    /\ finished' = 0 /\ remaining' = 0 /\ ansIdx' = 0
    /\ avgDone' = FALSE /\ saveDone' = FALSE
    /\ UNCHANGED <<psVars, cliVars, expected, armedPar, failedCnt, statePar,
                   cfgVars, ctlVars, chanVars, mEpoch, mErr, wrkVars,
                   panicked, obsVars>>

\* mergeModel: errChan <- err; break (errChan has a buffer of one; the
\* locals of the inner loop go out of scope). errChan is the channel of the
\* epoch the Merger was started for: once train() has made the next one,
\* nobody holds the old channel and what is sent on it is never read
MergerReportErr ==
    /\ Alive /\ mpc = "report_err"
    /\ mEpoch = errChanOf => errChan = "empty"
    /\ errChan' = IF mEpoch = errChanOf THEN mErr ELSE errChan
    /\ mpc' = "wait_start"
    /\ channels' = <<>> /\ finished' = 0 /\ remaining' = 0 /\ ansIdx' = 0
    /\ avgDone' = FALSE /\ saveDone' = FALSE
    /\ UNCHANGED <<psVars, cliVars, expected, armedPar, failedCnt, statePar,
                   cfgVars, ctlVars, accuracyCh, stopChan, finishCh,
                   errChanOf, wgIteration, finishedFuncs, mEpoch, mErr,
                   wrkVars, panicked, obsVars>>

\* ------------------------------------------------- the train command (CLI)

jobVars == <<cfgVars, ctlVars, statePar, chanVars, mrgVars, wrkVars, panicked,
             obsVars, armedPar, expected, failedCnt>>

\* the flag values of a run: around zero, and for the batch size around
\* maxBatchSize too; lr (a float32) is counted in units of its smallest
\* positive value
Probes == (0 - MaxProbe) .. MaxProbe
BatchProbes ==
    Probes \cup ((maxBatchSize - MaxProbe) .. (maxBatchSize + MaxProbe))

\* one run of the command on one job configuration
CliInit ==
    /\ JobInit
    /\ Epochs = 1 /\ static /\ validateEvery = 0 /\ K = SparseK /\ par0 = 1
    /\ cliPc = "start"
    /\ batchSize \in BatchProbes
    /\ epochs \in Probes
    /\ lr \in Probes
    /\ datasetFound \in BOOLEAN
    /\ functionFound \in BOOLEAN
    /\ cliErr = <<>>
    /\ submitted = FALSE
    /\ PsOff

\* train: kubemlClient.MakeKubemlClient() fails: return err
CliClientErr ==
    /\ cliPc = "start"
    /\ cliPc' = "failed"
    /\ UNCHANGED <<psVars, jobVars, batchSize, epochs, lr, datasetFound,
                   functionFound, cliErr, submitted>>

\* train: the client is made and the request is built from the flags
CliBuild ==
    /\ cliPc = "start"
    /\ cliPc' = "built"
    /\ UNCHANGED <<psVars, jobVars, batchSize, epochs, lr, datasetFound,
                   functionFound, cliErr, submitted>>

\* BatchBad with the upper limit excluded
BatchBadAtLimit(b) == b <= 0 \/ b >= maxBatchSize

\* validateTrainRequest: req.BatchSize <= 0 || req.BatchSize > maxBatchSize
BatchBad(b) == b <= 0 \/ b > maxBatchSize

\* datasetExists / functionExists: (true, nil) when the Get succeeds,
\* (false, err) otherwise; the test is err != nil || !exists
Missing(found) == ~found

\* multierror.Append(e, ...) under its condition
AppendIf(e, cond, msg) == IF cond THEN Append(e, msg) ELSE e

\* validateTrainRequest: the five checks in order; e.ErrorOrNil() is nil
\* when nothing was appended (represented by the empty sequence)
validateTrainRequest ==
    AppendIf(
      AppendIf(
        AppendIf(
          AppendIf(
            AppendIf(<<>>, BatchBad(batchSize), "batch size"),
            epochs <= 0, "epochs"),
          lr <= 0, "learning rate"),
        Missing(datasetFound), "dataset"),
      Missing(functionFound), "function")

\* train: err := validateTrainRequest(client, &req)
CliValidate ==
    /\ cliPc = "built"
    /\ cliErr' = validateTrainRequest
    /\ cliPc' = "validated"
    /\ UNCHANGED <<psVars, jobVars, batchSize, epochs, lr, datasetFound,
                   functionFound, submitted>>

\* train: if err != nil { return err }
CliReject ==
    /\ cliPc = "validated" /\ cliErr # <<>>
    /\ cliPc' = "rejected"
    /\ UNCHANGED <<psVars, jobVars, batchSize, epochs, lr, datasetFound,
                   functionFound, cliErr, submitted>>

\* train: id, err := client.V1().Networks().Train(&req)
CliSubmit ==
    /\ cliPc = "validated" /\ cliErr = <<>>
    /\ submitted' = TRUE
    /\ cliPc' = "submitted"
    /\ UNCHANGED <<psVars, jobVars, batchSize, epochs, lr, datasetFound,
                   functionFound, cliErr>>

CliNext == CliClientErr \/ CliBuild \/ CliValidate \/ CliReject \/ CliSubmit

CliSpec == CliInit /\ [][CliNext]_vars

\* ------------------------- ParameterServer.invokeTrainFunctions (older server)

cliJobVars == <<jobVars, cliVars>>

\* the losses a function reports in its result
Losses == 0 .. MaxLoss

\* one call of invokeTrainFunctions(n), next to an idle job
PsInit ==
    /\ JobInit
    /\ Epochs = 1 /\ static /\ validateEvery = 0 /\ K = SparseK /\ par0 = 1
    /\ CliOff
    /\ \E n \in 0 .. MaxPar, h \in {<<>>, <<Quotient(1, 1)>>} :
          ps = PsCall("start", n, h)

\* invokeTrainFunctions: wg := &sync.WaitGroup{};
\* respChan := make(chan map[string]float32, n)
PsStart ==
    /\ ps.pc = "start"
    /\ ps' = [ps EXCEPT !.wg = 0, !.respChan = NewRespChan(ps.n),
                        !.pc = "launch"]
    /\ UNCHANGED cliJobVars

\* invokeTrainFunctions: for i := 0; i < n; i++ { wg.Add(1);
\* go ps.launchFunction(i, query, wg, respChan) }
PsLaunch ==
    /\ ps.pc = "launch" /\ ps.i < ps.n
    /\ ps' = [ps EXCEPT !.wg = @ + 1, !.fnPc[ps.i] = "get", !.i = @ + 1]
    /\ UNCHANGED cliJobVars

\* invokeTrainFunctions: wg.Wait(); close(respChan)
PsWait ==
    /\ ps.pc = "launch" /\ ps.i >= ps.n
    /\ ps.wg = 0
    /\ ps' = [ps EXCEPT !.respChan.closed = TRUE, !.pc = "sum"]
    /\ UNCHANGED cliJobVars

\* invokeTrainFunctions: for response := range respChan
\* { loss += response["loss"] }
PsSum ==
    /\ ps.pc = "sum" /\ ps.respChan.buf # <<>>
    /\ ps' = [ps EXCEPT !.loss = @ + Head(ps.respChan.buf),
                        !.respChan.buf = Tail(@)]
    /\ UNCHANGED cliJobVars

\* invokeTrainFunctions: avgLoss := loss / float32(n)
Mean(total, count) == Quotient(total, count)

\* invokeTrainFunctions: the range loop ends on the closed, empty channel;
\* avgLoss := loss / float32(n); ps.history["trainLoss"] gets avgLoss
\* appended (or is created with it)
PsAverage ==
    /\ ps.pc = "sum" /\ ps.respChan.buf = <<>>
    /\ ps' = [ps EXCEPT !.avgLoss = Mean(ps.loss, ps.n),
                        !.history = Append(@, Mean(ps.loss, ps.n)),
                        !.pc = "returned"]
    /\ UNCHANGED cliJobVars

\* launchFunction: http.Get(query) fails: log and return (the deferred
\* wg.Done() runs)
FnGetErr(f) ==
    /\ ps.fnPc[f] = "get"
    /\ ps' = [ps EXCEPT !.fnPc[f] = "failed", !.wg = @ - 1]
    /\ UNCHANGED cliJobVars

\* launchFunction: the request is answered
FnGetOk(f) ==
    /\ ps.fnPc[f] = "get"
    /\ ps' = [ps EXCEPT !.fnPc[f] = "read"]
    /\ UNCHANGED cliJobVars

\* launchFunction: ioutil.ReadAll or json.Unmarshal fails: log and return
\* (the deferred wg.Done() runs)
FnBodyErr(f) ==
    /\ ps.fnPc[f] = "read"
    /\ ps' = [ps EXCEPT !.fnPc[f] = "failed", !.wg = @ - 1]
    /\ UNCHANGED cliJobVars

\* launchFunction: respChan <- res["results"] (blocks while the buffer is
\* full), then return (the deferred wg.Done() runs)
FnSend(f) ==
    /\ ps.fnPc[f] = "read"
    /\ ~ps.respChan.closed
    /\ Len(ps.respChan.buf) < ps.respChan.cap
    /\ \E l \in Losses :
          ps' = [ps EXCEPT !.respChan.buf = Append(@, l), !.fnRes[f] = l,
                           !.fnPc[f] = "sent", !.wg = @ - 1]
    /\ UNCHANGED cliJobVars

PsNext ==
    \/ PsStart \/ PsLaunch \/ PsWait \/ PsSum \/ PsAverage
    \/ \E f \in WorkerIds :
          FnGetErr(f) \/ FnGetOk(f) \/ FnBodyErr(f) \/ FnSend(f)

PsSpec == PsInit /\ [][PsNext]_vars

\* ------------------------------------------------------------- behaviour

Controller ==
    \/ InitOk \/ InitFail
    \/ ArmFinishCh \/ ArmWaitGroup \/ ArmCounters \/ StartMerger
    \/ InvokeOk \/ InvokeErr \/ PollMergeError \/ PollNoError
    \/ SkipUpdate \/ UpdateJobOk \/ UpdateJobErr \/ SchedulerReply
    \/ WaitMerged \/ ValidateStart \/ ValidateSkip
    \/ ValidateInvokeErr \/ ValidateMetricsErr \/ ValidateErrLogged
    \/ ValidateMiss \/ ValidateHit
    \/ PushAccuracy \/ SelectStop \/ SelectAccuracy \/ SelectDefault
    \/ FinalValidate \/ FinalSkip \/ SaveHistory \/ Teardown

Workers ==
    \E w \in WorkerIds :
        \/ \E fin \in BOOLEAN : WorkerCheckIn(w, fin)
        \/ WorkerPanic(w)
        \/ WorkerFail(w)

Merger ==
    \/ MergerClear \/ MergerWait \/ MergerDrain \/ MergerClosePanic
    \/ MergerAverageOk \/ MergerAverageFail \/ MergerSaveOk \/ MergerSaveFail
    \/ MergerLoad \/ MergerRearm \/ MergerRearmPanic
    \/ MergerAnswerSend \/ MergerAnswerDone
    \/ MergerReportErr

Next == Controller \/ Workers \/ Merger \/ Stop

Spec == Init /\ [][Next]_vars

\* the job when every invoked function follows the protocol: it checks in at
\* each barrier it reaches and returns once its shard is done (no invocation
\* fails); goroutines that can take a step are scheduled (weak fairness)
ProtocolWorkers ==
    \E w \in WorkerIds :
        \/ \E fin \in BOOLEAN : WorkerCheckIn(w, fin)
        \/ WorkerPanic(w)

FairNext == Controller \/ ProtocolWorkers \/ Merger \/ Stop

FairSpec == Init /\ [][FairNext]_vars /\ WF_vars(FairNext)

\* the job with functions that may report in late
Late == \E w \in WorkerIds : LateFinish(w) \/ LateFinishPanic(w)

LateNext == Next \/ Late

LateSpec == Init /\ [][LateNext]_vars

TypeOK ==
    /\ cpc \in {"init", "arm_ch", "arm_wg", "arm_cnt", "handoff", "invoke",
                "poll", "sched", "wait_sched", "wait_merged", "val",
                "validating_i", "push_i", "valerr_i", "select", "final",
                "validating_f", "push_f", "valerr_f", "save_hist",
                "teardown", "done"}
    /\ mpc \in {"wait_start", "clear", "wait_wg", "drain", "average", "save",
                "load", "rearm", "answer", "send_merged", "report_err"}
    /\ accuracyCh \in 0 .. AccuracyChCap
    /\ stopChan \in 0 .. StopChanCap
    /\ wgIteration >= 0

\* ---------------------------------------------------------------- claims

AfterLoop == cpc \in {"final", "save_hist", "teardown", "done"}

\* C1: for every epoch whose train() returned without error the controller
\* has received `merged` exactly once by the time it leaves the epoch (it
\* starts the next epoch, or Train has returned), and the Merger sends
\* `merged` only with remaining = 0.
C1_MergedOncePerEpoch ==
    /\ mergedRecv <= 1
    /\ mpc = "send_merged" => remaining = 0
    /\ (trainOk /\ (epoch > lastTrained \/ cpc = "done")) => mergedRecv = 1

\* C2: after a failed UpdateJob the job is not stalled: the controller is
\* never stuck handing the next epoch's errChan to a Merger that is itself
\* stuck sending the `merged` of the epoch before, which nobody received.
C2_UpdateErrorDoesNotStall ==
    updFailed =>
        /\ parallelism = par0 \/ schedReads > 0
        /\ ~(cpc = "handoff" /\ mpc = "send_merged" /\ mergedRecv = 0)

\* C3: the controller never ends up blocked on `merged` for an epoch whose
\* merge failed: it is never waiting on `merged` while the error of that
\* epoch sits unread on errChan and the Merger is back on startMerger.
C3_MergeErrorObserved ==
    ~(/\ cpc = "wait_merged"
      /\ mpc = "wait_start"
      /\ errChanOf = epoch
      /\ errChan # "empty")

\* C4: when Average or Save fails at a barrier, every participant that gave
\* a non-nil respChan gets exactly one MergeFailed and no MergeSucceeded,
\* the error goes on the epoch's errChan without blocking (the buffer is
\* free), no `merged` is sent for the barrier, and the Merger goes back to
\* waiting on startMerger.
C4_MergeFailureAnswered ==
    /\ mpc = "report_err" => (mEpoch = errChanOf => errChan = "empty")
    /\ mErr \in {"avg", "save"} =>
          /\ mpc \in {"answer", "report_err", "wait_start"}
          /\ \A w \in WorkerIds : recvd[w] \in {<<>>, <<"MergeFailed">>}
          /\ mpc = "report_err" =>
                \A i \in 1 .. Len(channels) :
                    channels[i].resp =>
                        recvd[channels[i].funcId] = <<"MergeFailed">>

C4_Witness ==
    /\ mpc = "report_err"
    /\ mErr = "save"
    /\ \E i \in 1 .. Len(channels) : channels[i].resp

\* the exitErr each exit path of Train records
ExpectedExitErr ==
    CASE exitPath = "init" -> InitErrors
      [] exitPath = "train" -> {"invoke", "merge"}
      [] exitPath = "stop" -> {"stop"}
      [] exitPath = "goal" -> {NoErr}
      [] exitPath = "completed" -> {NoErr}
      [] OTHER -> {}

\* C5: on every exit path of Train the teardown runs exactly once: tensors
\* deleted, pool closed once, JobFinished emitted once with the exitErr of
\* that path (nil on normal completion and on goal reached).
C5_TeardownOnce ==
    /\ cpc # "done" =>
          tensorsCleared = 0 /\ poolClosed = 0 /\ jobFinished = <<>>
    /\ cpc = "done" =>
          /\ tensorsCleared = 1
          /\ poolClosed = 1
          /\ jobFinished = <<exitErr>>
          /\ exitErr \in ExpectedExitErr

C5_Witness == cpc = "done" /\ exitPath = "train" /\ exitErr = "merge"

\* C6: a validation, intermediate or final, runs only after the controller
\* has received `merged` for the most recently trained epoch, and while it
\* runs the Merger is idle on startMerger (no Average or Save in progress
\* or pending).
C6_ValidateAfterMerged ==
    cpc \in {"validating_i", "push_i", "validating_f", "push_f"} =>
        /\ mergedRecv = 1
        /\ mpc = "wait_start"
        /\ lastTrained = (IF cpc \in {"validating_i", "push_i"}
                          THEN epoch ELSE Epochs)

C6_Witness == cpc = "validating_i" /\ epoch = 1 /\ lastTrained = 1

\* C7 as stated: a stop pending at the epoch-boundary select always ends
\* the job with exitErr = "job was force stopped", also when a goal-accuracy
\* notification is pending at the same check.
C7_StopAlwaysWins ==
    lastSelect.stop => (lastSelect.branch = "stop" /\ exitErr = "stop")

\* what holds of every select that saw a ready channel: the loop exits at
\* that boundary, no further epoch, no final validation
ExitsAtBoundary ==
    /\ AfterLoop
    /\ accuracyReached
    /\ epoch = lastSelect.epoch
    /\ lastTrained = lastSelect.epoch
    /\ finalVals = 0
    /\ cpc \in {"teardown", "done"} => histSaved

\* C7 (amended): a stop pending at the select with no goal-accuracy
\* notification pending ends the loop at that boundary with exitErr = "job
\* was force stopped", no further epoch, no final validation, the history
\* persisted and JobFinished carrying that error; with a goal-accuracy
\* notification pending too the loop ends at that boundary all the same,
\* but the select takes either ready case and exitErr is the forced-stop
\* error or nil accordingly.
C7_StopWithoutGoalWins ==
    /\ (lastSelect.stop /\ ~lastSelect.acc) =>
          /\ lastSelect.branch = "stop"
          /\ exitErr = "stop"
          /\ ExitsAtBoundary
          /\ cpc = "done" => jobFinished = <<"stop">>
    /\ (lastSelect.stop /\ lastSelect.acc) =>
          /\ lastSelect.branch \in {"stop", "accuracy"}
          /\ exitErr = (IF lastSelect.branch = "stop" THEN "stop" ELSE NoErr)
          /\ ExitsAtBoundary

C7_Witness ==
    /\ lastSelect.stop /\ ~lastSelect.acc
    /\ lastSelect.epoch = 1 /\ Epochs = 2
    /\ cpc = "done"

\* C8: when the intermediate validation of epoch e finds accuracy >=
\* GoalAccuracy (the test in validate()), the notification is pending at the
\* boundary check of epoch e, and with no stop pending there the loop
\* breaks: accuracyReached, no later epoch, no final validation, exitErr nil.
C8_GoalReachedBreaks ==
    /\ (cpc = "select" /\ hitEpoch = epoch) => accuracyCh = 1
    /\ (hitEpoch # 0 /\ lastSelect.epoch = hitEpoch /\ ~lastSelect.stop) =>
          /\ lastSelect.acc
          /\ lastSelect.branch = "accuracy"
          /\ exitErr = NoErr
          /\ ExitsAtBoundary
          /\ cpc = "done" => jobFinished = <<NoErr>>

C8_Witness ==
    /\ hitEpoch = 1 /\ Epochs = 2
    /\ lastSelect.epoch = 1 /\ ~lastSelect.stop
    /\ cpc = "done"

\* C9: at most one value is ever pushed to accuracyCh, it never holds more
\* than one element, and the send in validate() never finds it full, also
\* in the final validation after the loop.
C9_AccuracyPushedOnce ==
    /\ accPushes <= 1
    /\ accuracyCh <= 1
    /\ cpc \in {"push_i", "push_f"} => accuracyCh < AccuracyChCap

C9_Witness ==
    /\ cpc = "done"
    /\ finalVals = 1
    /\ accPushes = 1
    /\ accuracyCh = 1

\* C10: with StaticParallelism UpdateJob is never requested, schedulerCh is
\* never read, and job.parallelism keeps its initial value at every epoch
\* start and in every `remaining` the Merger computes.
C10_StaticNeverRenegotiates ==
    static =>
        /\ updReqs = 0
        /\ schedReads = 0
        /\ cpc # "wait_sched"
        /\ parallelism = par0
        /\ mpc \in {"send_merged", "rearm"} => remaining = par0 - finished

C10_Witness ==
    /\ static
    /\ lastTrained = 2
    /\ mpc = "rearm"
    /\ finished = 1

\* the controller stands in the part of the epoch before the UpdateJob test
BeforeUpdate ==
    cpc \in {"arm_ch", "arm_wg", "arm_cnt", "handoff", "invoke", "poll",
             "sched"}

\* the UpdateJob requests made so far when one is made after each non-final
\* epoch and none after the last
RequestsDue ==
    IF BeforeUpdate \/ exitPath = "train" THEN epoch - 1
    ELSE IF epoch < Epochs THEN epoch ELSE Epochs - 1

\* C11: in a non-static job without the debug/limit override UpdateJob is
\* requested exactly once after each non-final epoch and never after the
\* last, job.parallelism is the Parallelism of the last JobState received,
\* and an epoch that follows a reply is armed with it: finishCh buffer,
\* wgIteration count and number of invoked workers.
C11_ParallelismFollowsScheduler ==
    (~static /\ ~noParUpdate) =>
        /\ epoch >= 1 => updReqs = RequestsDue
        /\ updReqs <= Epochs - 1
        /\ schedReads <= updReqs
        /\ parallelism = statePar
        /\ (cpc = "handoff" /\ ~updFailed) =>
              /\ finishCh = NewFinishCh(statePar)
              /\ wgIteration = statePar
              /\ finishedFuncs = 0
        /\ cpc = "invoke" => Cardinality(Launched) = statePar

C11_Witness ==
    /\ ~static /\ ~noParUpdate
    /\ cpc = "invoke" /\ epoch = 2
    /\ par0 = 1 /\ statePar = 2
    /\ Cardinality(Launched) = 2

\* C12: with K = -1 and every worker of the epoch checking in, the epoch has
\* exactly one barrier: Average is called with count = N (the parallelism
\* the epoch was armed with), and the Merger never re-arms wgIteration in
\* that epoch (after Save it sends `merged`).
C12_OneBarrierPerEpoch ==
    (K = SparseK /\ failedCnt = 0) =>
        /\ mpc \in {"average", "save", "load"} => Len(channels) = armedPar
        /\ mpc # "rearm"
        /\ mpc = "answer" => AnswerResult = FailureAnswer
        /\ barrier = 0

\* C13 as stated: at every barrier the count passed to Average, the number
\* of notifications drained, is the number of participants the barrier was
\* armed for: N at the first barrier of the epoch, the previous `remaining`
\* afterwards.
C13_CountIsArmedParticipants ==
    mpc = "average" => Len(channels) = expected

\* C13 (amended): the Merger reaches Average only when every participant
\* the barrier was armed for is accounted for (wgIteration at zero), and the
\* count it passes, the number of notifications drained, each of a distinct
\* function, is the number the barrier was armed for (N at the first
\* barrier, the previous `remaining` afterwards) less the invocations that
\* failed before reporting in.
C13_CountIsCheckedIn ==
    /\ (mpc = "drain" /\ epoch = mEpoch) => wgIteration = 0
    /\ mpc \in {"average", "save", "load"} =>
          /\ Len(channels) = expected - failedCnt
          /\ Len(channels) >= 1
          /\ \A i, j \in 1 .. Len(channels) :
                channels[i].funcId = channels[j].funcId => i = j

C13_Witness ==
    /\ mpc = "average"
    /\ barrier = 1
    /\ expected = 2
    /\ failedCnt = 1
    /\ Len(channels) = 1

\* the drained participants that wait for an answer (non-nil respChan)
Waiting == {i \in 1 .. Len(channels) : channels[i].resp}

\* C14: when invocations of the epoch error before reporting in, the first
\* barrier still releases with the other participants (Average gets count
\* N - failed), `remaining` counts the failed workers as finished (it is
\* the number of participants still waiting for an answer, so the epoch ends
\* with `merged` once it is 0), and nothing panics.
C14_StragglerDropped ==
    (failedCnt >= 1 /\ barrier = 0) =>
        /\ mpc \in {"average", "save", "load"} =>
              Len(channels) = armedPar - failedCnt
        /\ mpc \in {"rearm", "send_merged"} =>
              /\ remaining = armedPar - finished
              /\ remaining = Cardinality(Waiting)
        /\ ~panicked

\* C15: when a barrier releases with zero notifications drained, the Merger
\* calls neither Average nor Save and sends no `merged` (it reports the
\* error and returns to startMerger), and the epoch ends as a fatal error of
\* the job: train() does not return nil for that epoch, and Train returns
\* with the error recorded.
C15_NoParticipantsIsFatal ==
    mErr = "nofuncs" =>
        /\ mpc \in {"report_err", "wait_start"}
        /\ mpc = "report_err" => channels = <<>>
        /\ ~trainOk
        /\ cpc \in {"teardown", "done"} => exitErr \in {"merge", "invoke"}

\* C16: when job.init() fails (init invocation, zero layers or Build) the
\* job aborts before epoch 1: no epoch is trained, nothing is sent on
\* startMerger, wgIteration and finishCh are not armed, no validation runs
\* and no history is saved, exitErr is the init error, and the teardown
\* emits JobFinished with it.
C16_InitFailureAborts ==
    /\ exitErr \in InitErrors <=> exitPath = "init"
    /\ exitPath = "init" =>
          /\ cpc \in {"teardown", "done"}
          /\ epoch = 0 /\ lastTrained = 0
          /\ mpc = "wait_start" /\ mEpoch = 0
          /\ wgIteration = 0 /\ finishCh = NewFinishCh(0)
          /\ wstate = [w \in WorkerIds |-> "idle"]
          /\ valRuns = 0 /\ finalVals = 0
          /\ ~histSaved
          /\ cpc = "done" => jobFinished = <<exitErr>>

C16_Witness ==
    /\ cpc = "done"
    /\ exitErr = "init_layers"
    /\ jobFinished = <<"init_layers">>

\* C17: when validate() fails (the validation fan-out, or sending its
\* results) it returns without updating the validation history and without
\* pushing to accuracyCh, exitErr and accuracyReached are left as they were,
\* and after an intermediate validation Train only logs the error and goes
\* to the epoch-boundary check of the same epoch, from where, with no
\* channel ready, the loop continues with the next epoch.
C17_ValidationFailureTolerated ==
    /\ [][(InValidate /\ cpc' \in {"valerr_i", "valerr_f"}) =>
             /\ cpc' = ErrPc
             /\ valHist' = valHist
             /\ accuracyCh' = accuracyCh /\ accPushes' = accPushes
             /\ exitErr' = exitErr
             /\ accuracyReached' = accuracyReached]_vars
    /\ [][cpc = "valerr_i" =>
             /\ cpc' \in {"valerr_i", "select"}
             /\ epoch' = epoch
             /\ valHist' = valHist
             /\ accuracyCh' = accuracyCh
             /\ exitErr' = exitErr
             /\ accuracyReached' = accuracyReached]_vars
    /\ [][(cpc = "select" /\ cpc' # "select"
             /\ stopChan = 0 /\ accuracyCh = 0) =>
             /\ epoch' = epoch + 1
             /\ cpc' = LoopPc(epoch + 1)
             /\ exitErr' = exitErr]_vars

C17_Witness ==
    /\ cpc = "arm_ch" /\ epoch = 2
    /\ valRuns = 1 /\ valHist = <<>>
    /\ exitErr = NoErr
    /\ accuracyCh = 0
    /\ lastSelect.branch = "default"

\* the epochs up to e at whose end an intermediate validation is due
ValidationEpochs(e) ==
    {x \in 1 .. e : validateEvery > 0 /\ x % validateEvery = 0 /\ x # Epochs}

\* C18: an intermediate validation runs at the end of epoch e if and only
\* if ValidateEvery > 0, e is a multiple of ValidateEvery and e is not the
\* last epoch (so the validations run so far are those of the epochs
\* ended), and exactly one final validation runs after the loop if and only
\* if the loop ended with accuracyReached = FALSE.
C18_ValidationSchedule ==
    /\ cpc \in {"validating_i", "push_i", "valerr_i"} =>
          epoch \in ValidationEpochs(epoch)
    /\ cpc \in {"arm_ch", "arm_wg", "arm_cnt", "handoff"} =>
          valRuns = Cardinality(ValidationEpochs(epoch - 1))
    /\ cpc = "select" => valRuns = Cardinality(ValidationEpochs(epoch))
    /\ finalVals <= 1
    /\ (finalVals = 1) <=>
          (/\ cpc \in {"validating_f", "push_f", "valerr_f", "save_hist",
                       "teardown", "done"}
           /\ exitPath = "completed"
           /\ ~accuracyReached)
    /\ (cpc = "save_hist" /\ accuracyReached) => finalVals = 0

Increasing(h) == \A i, j \in 1 .. Len(h) : i < j => h[i] < h[j]

\* C19: train metrics are appended at most once per epoch and in increasing
\* epoch order, validation metrics at most once per validation run
\* (intermediate or final) and in increasing order, so no history series is
\* longer than Epochs + 1, in particular when the history is persisted.
C19_HistoryBounded ==
    /\ Increasing(trainHist)
    /\ \A i \in 1 .. Len(trainHist) : trainHist[i] \in 1 .. lastTrained
    /\ Increasing(valHist)
    /\ Len(valHist) <= valRuns + finalVals
    /\ Len(trainHist) <= Epochs + 1
    /\ Len(valHist) <= Epochs + 1

C19_Witness ==
    /\ histSaved
    /\ trainHist = <<1, 2>>
    /\ valHist = <<1, 3>>

\* the conditions validateTrainRequest is to reject, each with its message
Violations ==
    {<<batchSize \notin 1 .. maxBatchSize, "batch size">>,
     <<epochs <= 0, "epochs">>,
     <<lr <= 0, "learning rate">>,
     <<~datasetFound, "dataset">>,
     <<~functionFound, "function">>}

\* C20: validateTrainRequest returns an error if and only if the batch
\* size is outside (0, 1024], or epochs <= 0, or learning rate <= 0, or the
\* dataset is not found, or the function is not found; the error holds
\* exactly one message per violated condition; and the request is sent to
\* the controller only when the error is nil.
C20_ValidateTrainRequest ==
    /\ cliPc \in {"validated", "rejected", "submitted"} =>
          /\ cliErr # <<>> <=> \E v \in Violations : v[1]
          /\ \A v \in Violations :
                Cardinality({i \in 1 .. Len(cliErr) : cliErr[i] = v[2]})
                    = (IF v[1] THEN 1 ELSE 0)
          /\ Len(cliErr) = Cardinality({v \in Violations : v[1]})
    /\ submitted <=> cliPc = "submitted"
    /\ submitted => cliErr = <<>>
    /\ cliPc = "rejected" => cliErr # <<>>

C20_Witness ==
    /\ cliPc = "submitted"
    /\ batchSize = maxBatchSize
    /\ epochs = 1 /\ lr = 1

\* the Merger is at work on the epoch the controller is in: it was started
\* for it and has not yet handed `merged` (or an error) back
MergerBusy == mEpoch = epoch /\ mpc \notin {"wait_start"}

\* C21: in a non-final epoch of a non-static job the controller has received
\* `merged` by the time it requests UpdateJob and waits for the scheduler's
\* reply, and job.parallelism keeps the value the epoch was armed with for
\* as long as the Merger is at work on that epoch (up to its last
\* computation of `remaining`).
C21_ParallelismStableUntilMerged ==
    /\ cpc = "wait_sched" => mergedRecv = 1
    /\ (MergerBusy /\ lastTrained = epoch) => parallelism = armedPar

\* C22: at every successful barrier release, remaining = parallelism -
\* finishedFuncs is the number of drained notifications with a non-nil
\* respChan (finishedFuncs plus the workers still iterating is the epoch's
\* parallelism), so the re-armed wgIteration target is the number of
\* workers answered MergeSucceeded, and remaining = 0 exactly when every
\* drained respChan is nil.
C22_RemainingIsStillIterating ==
    /\ mpc \in {"rearm", "send_merged"} =>
          /\ remaining = Cardinality(Waiting)
          /\ finished + Cardinality(Waiting) = armedPar
          /\ remaining = 0 <=> Waiting = {}
    /\ (mpc = "answer" /\ mErr = "none") =>
          /\ remaining = Cardinality(Waiting)
          /\ expected = Cardinality(Waiting)

\* C23: at every barrier each participant that gave a non-nil respChan
\* receives at most one MergeResult on it and a participant with a nil
\* respChan receives nothing; MergeSucceeded reaches a worker only after
\* Average and Save of the barrier it took part in have both succeeded, and
\* before the Average of a later barrier starts (the Merger is still
\* answering, or is on its way to the next barrier's drain).
C23_AnswerAfterMerge ==
    /\ \A w \in WorkerIds : Len(recvd[w]) <= 1
    /\ \A i \in 1 .. Len(channels) :
          ~channels[i].resp => recvd[channels[i].funcId] = <<>>
    /\ \A w \in WorkerIds :
          recvd[w] = <<"MergeSucceeded">> =>
              /\ mErr = "none"
              /\ mpc \in {"answer", "clear", "wait_wg", "drain"}
              /\ mpc = "answer" =>
                    /\ avgDone /\ saveDone
                    /\ \E i \in 1 .. Len(channels) :
                          channels[i].funcId = w /\ channels[i].resp

C23_Witness ==
    /\ mpc = "answer"
    /\ Len(channels) = 2
    /\ ~channels[1].resp /\ channels[2].resp
    /\ recvd[channels[1].funcId] = <<>>
    /\ recvd[channels[2].funcId] = <<"MergeSucceeded">>

\* C24: the Merger calls Model.Clear() only after every participant of the
\* barrier has checked in and finishCh has been closed and drained (right
\* before Average and Save), and never while a worker, launched for the
\* epoch or released by the previous barrier, is running its local round.
C24_ClearInsideCriticalSection ==
    [][MergerClear =>
          /\ wgIteration = 0
          /\ finishCh.closed
          /\ channels # <<>>
          /\ \A w \in WorkerIds : wstate[w] # "running"]_vars

\* C25: a FinishNotification sent after `merged` was signaled for its epoch
\* is never silently accepted: the participants the Merger drains at a
\* barrier, and the notifications counted against the wgIteration armed for
\* an epoch, are all of functions invoked for that epoch.
C25_LateFinishRejected ==
    /\ \A i \in 1 .. Len(channels) : channels[i].of = mEpoch
    /\ cpc \in {"handoff", "invoke"} =>
          \A i \in 1 .. Len(finishCh.buf) : finishCh.buf[i].of = epoch

\* the launched invocations that sent a result, and the sum of what they sent
Sent == {f \in WorkerIds : ps.fnPc[f] = "sent"}
RECURSIVE SumRes(_)
SumRes(fs) ==
    IF fs = {} THEN 0
    ELSE LET f == CHOOSE x \in fs : TRUE IN ps.fnRes[f] + SumRes(fs \ {f})

\* a / b = c / d for quotients with positive divisors
SameQuotient(q, r) == q.num * r.den = r.num * q.den

\* C26: invokeTrainFunctions goes past its wait only when all n launched
\* invocations have completed, by a result or by a failure; a failed
\* invocation has put nothing on respChan and a sender never finds respChan
\* full or closed; and the mean training loss reported and appended to the
\* history is the mean over the invocations that returned a result.
C26_AllInvocationsAwaited ==
    /\ ps.pc \in {"sum", "returned"} =>
          /\ ps.i = ps.n
          /\ \A f \in WorkerIds :
                ps.fnPc[f] \in (IF f < ps.n THEN {"sent", "failed"}
                                ELSE {"none"})
    /\ ps.pc = "launch" => Len(ps.respChan.buf) = Cardinality(Sent)
    /\ \A f \in WorkerIds :
          ps.fnPc[f] = "read" =>
              /\ ~ps.respChan.closed
              /\ Len(ps.respChan.buf) < ps.respChan.cap
    /\ \A f \in WorkerIds : ps.fnPc[f] = "failed" => ps.fnRes[f] = 0
    /\ ps.pc = "returned" =>
          /\ ps.loss = SumRes(Sent)
          /\ Sent # {} =>
                SameQuotient(ps.avgLoss,
                             Quotient(SumRes(Sent), Cardinality(Sent)))
          /\ ps.history # <<>>
          /\ ps.history[Len(ps.history)] = ps.avgLoss

\* C27: under fair scheduling, with every invoked worker following the
\* protocol and the scheduler answering each successful UpdateJob, the job
\* eventually reaches its teardown and emits JobFinished, whatever Epochs,
\* parallelism, K and static or dynamic mode: controller, Merger and
\* workers never deadlock on startMerger, merged, wgIteration or a respChan.
C27_JobTerminates == <>(cpc = "done" /\ Len(jobFinished) = 1)

\* C28: on a non-final release the Merger has re-armed wgIteration with
\* `remaining` and installed a fresh finishCh with buffer `remaining` before
\* it sends MergeSucceeded to any worker; and a worker that is running its
\* round always finds the barrier it is going to armed: finishCh open with
\* room for its notification and wgIteration above zero (it never sends on
\* a closed finishCh, never blocks on a full one, never drives wgIteration
\* below zero).
C28_BarrierArmedForWorkers ==
    /\ (mpc = "answer" /\ mErr = "none") =>
          /\ ~finishCh.closed
          /\ finishCh.cap = remaining
          /\ wgIteration + Len(finishCh.buf) + failedCnt = remaining
    /\ \A w \in WorkerIds :
          wstate[w] = "running" =>
              /\ ~finishCh.closed
              /\ Len(finishCh.buf) < finishCh.cap
              /\ wgIteration > 0

====
